---- MODULE Spec2Model ----
(***************************************************************************)
(* docs/pylib/create_toctree.py: catalog the Markdown documents under      *)
(* source/, rewrite their cross-reference links, write source/toc.md.      *)
(*                                                                         *)
(* Text is modelled as TLC strings, character by character: Len, \o and    *)
(* SubSeq act on them as on sequences of one-character strings.            *)
(***************************************************************************)
EXTENDS Integers, Sequences, FiniteSets, TLC

VARIABLES
    files,      \* the *.md files under _SOURCE_DIR: absolute path -> content
    files0,     \* the files as they were when the current run started
    run,        \* number of the current invocation of create_toctree
    pc,         \* "catalog", "rewrite", "toc", "done" or "error"
    exc,        \* the exception that ended the run ("" while none)
    pending,    \* documents the cataloging loop has not yet visited
    toc_map,    \* reference name -> reference path
    docref_map, \* source path -> (target reference name -> relative path)
    _CURRFILE,  \* the module global _CURRFILE ("None" before the first document)
    queue,      \* documents the rewrite loop has still to process, in order
    count,      \* number of documents the rewrite loop has written
    written,    \* the documents the rewrite loop wrote in this run
    arg,        \* input of the function under test (SpecRef, SpecLink)
    ret         \* its output (NoCall before the call)

vars == <<files, files0, run, pc, exc, pending, toc_map, docref_map, _CURRFILE,
          queue, count, written, arg, ret>>

(***************************************************************************)
(* Python str and list operations                                          *)
(***************************************************************************)
Char(s, i) == SubSeq(s, i, i)

Min(S) == CHOOSE a \in S : \A b \in S : a <= b

Max(S) == CHOOSE a \in S : \A b \in S : a >= b

\* printable ASCII in code point order: 32 to 95, and 97 to 126 (a string of
\* this module cannot hold the backquote, 96, so no modelled text has one)
AsciiLow == " !\"#$%&'()*+,-./0123456789:;<=>?@ABCDEFGHIJKLMNOPQRSTUVWXYZ[\\]^_"

AsciiHigh == "abcdefghijklmnopqrstuvwxyz{|}~"

\* ord(c) for the characters documents and paths are written in
Ord == [c \in {Char(AsciiLow, i) : i \in 1..Len(AsciiLow)}
              \cup {Char(AsciiHigh, i) : i \in 1..Len(AsciiHigh)} \cup {"\t", "\n"} |->
          IF c = "\t" THEN 9
          ELSE IF c = "\n" THEN 10
          ELSE IF \E i \in 1..Len(AsciiLow) : Char(AsciiLow, i) = c
               THEN 31 + (CHOOSE i \in 1..Len(AsciiLow) : Char(AsciiLow, i) = c)
               ELSE 96 + (CHOOSE i \in 1..Len(AsciiHigh) : Char(AsciiHigh, i) = c)]

\* s.startswith(p)
StartsWith(s, p) == Len(p) <= Len(s) /\ SubSeq(s, 1, Len(p)) = p

\* sub in s
Contains(s, sub) ==
    \E i \in 1..(Len(s) - Len(sub) + 1) : SubSeq(s, i, i + Len(sub) - 1) = sub

\* the first position from i on that holds the character c, or 0
RECURSIVE FindFrom(_, _, _)
FindFrom(s, c, i) ==
    IF i > Len(s) THEN 0
    ELSE IF Char(s, i) = c THEN i
    ELSE FindFrom(s, c, i + 1)

\* the last position up to i that holds the character c, or 0
RECURSIVE RFindFrom(_, _, _)
RFindFrom(s, c, i) ==
    IF i < 1 THEN 0
    ELSE IF Char(s, i) = c THEN i
    ELSE RFindFrom(s, c, i - 1)

\* s.rfind(c) + 1 for a one-character c: 0 when c does not occur
RFind(s, c) == RFindFrom(s, c, Len(s))

\* s.find(c) + 1 for a one-character c: 0 when c does not occur
Find(s, c) == FindFrom(s, c, 1)

\* s.rsplit(c, 1): one part when c does not occur, else two
RSplit1(s, c) ==
    LET i == RFind(s, c)
    IN  IF i = 0 THEN <<s>>
        ELSE <<SubSeq(s, 1, i - 1), SubSeq(s, i + 1, Len(s))>>

\* s.split(c)
RECURSIVE Split(_, _)
Split(s, c) ==
    LET i == Find(s, c)
    IN  IF i = 0 THEN <<s>>
        ELSE <<SubSeq(s, 1, i - 1)>> \o Split(SubSeq(s, i + 1, Len(s)), c)

\* c.join(parts)
RECURSIVE Join(_, _)
Join(parts, c) ==
    IF Len(parts) = 0 THEN ""
    ELSE IF Len(parts) = 1 THEN parts[1]
    ELSE parts[1] \o c \o Join(Tail(parts), c)

\* s.replace(a, b) for one-character a
RECURSIVE Replace(_, _, _)
Replace(s, a, b) ==
    IF s = "" THEN ""
    ELSE (IF Char(s, 1) = a THEN b ELSE Char(s, 1)) \o Replace(Tail(s), a, b)

\* s < t, Python's comparison of str: by code point, a proper prefix first
RECURSIVE StrLess(_, _)
StrLess(s, t) ==
    IF t = "" THEN FALSE
    ELSE IF s = "" THEN TRUE
    ELSE IF Char(s, 1) = Char(t, 1) THEN StrLess(Tail(s), Tail(t))
    ELSE Ord[Char(s, 1)] < Ord[Char(t, 1)]

\* seq[-n:]
LastN(seq, n) ==
    IF Len(seq) <= n THEN seq ELSE SubSeq(seq, Len(seq) - n + 1, Len(seq))

\* seq[k:] for any integer k, Python's slice
SliceFrom(seq, k) ==
    IF k >= 0 THEN SubSeq(seq, Min({k, Len(seq)}) + 1, Len(seq))
    ELSE LastN(seq, -k)

\* seq.index(x) (0-based), or -1 where Python raises ValueError
Index(seq, x) ==
    LET at == {i \in 1..Len(seq) : seq[i] = x}
    IN  IF at = {} THEN -1 ELSE Min(at) - 1

Range(f) == {f[k] : k \in DOMAIN f}

(***************************************************************************)
(* Module constants                                                        *)
(***************************************************************************)
_IGNORE_FILES == {}

_SOURCEDIR_NAME == "source"

\* dirname(dirname(abspath(__file__))) is the docs/ folder of the checkout
_SOURCE_DIR == "/evennia/docs" \o "/" \o _SOURCEDIR_NAME

_TOC_FILE == _SOURCE_DIR \o "/" \o "toc.md"

_NO_REMAP_STARTSWITH == <<"http://", "https://", "github:", "api:",
                          "feature-request", "report-bug", "issue", "bug-report">>

TXT_REMAPS == [k \in {"Developer Central", "Getting Started"} |->
                 IF k = "Developer Central" THEN "Evennia Component overview"
                 ELSE "Setup Quickstart"]

URL_REMAPS ==
    ("Developer-Central" :> "Component/Component-Overview") @@
    ("Tutorials" :> "Howto/Howto-Overview") @@
    ("../Howto/Starting/Directory-Overview" :> "Gamedir-Overview") @@
    ("Howto/Starting/Directory-Overview" :> "Gamedir-Overview") @@
    ("Starting/Directory-Overview" :> "Gamedir-Overview") @@
    ("Directory-Overview" :> "Gamedir-Overview") @@
    ("../Setup/Getting-Started" :> "Setup-Quickstart") @@
    ("Setup/Getting-Started" :> "Setup-Quickstart") @@
    ("Getting-Started" :> "Setup-Quickstart") @@
    ("First-Steps-Coding" :> "Starting-Part1") @@
    ("../Howto/Starting/Adding-Command-Tutorial" :> "Adding-Commands") @@
    ("Howto/Starting/Adding-Command-Tutorial" :> "Adding-Commands") @@
    ("Starting/Adding-Command-Tutorial" :> "Adding-Commands") @@
    ("Adding-Command-Tutorial" :> "Adding-Commands") @@
    ("CmdSet" :> "Command-Sets") @@
    ("Spawner" :> "Spawner-and-Prototypes") @@
    ("issue" :> "github:issue") @@
    ("issues" :> "github:issue") @@
    ("bug" :> "github:issue") @@
    ("bug-report" :> "github:issue") @@
    ("Components/Components-Overview" :> "Component-Overview") @@
    ("Components-Overview" :> "Component-Overview") @@
    ("Concepts/Concepts-Overview" :> "Concept-Overview") @@
    ("Concepts-Overview" :> "Concept-Overview")

\* d.get(k, k)
GetOr(d, k) == IF k \in DOMAIN d THEN d[k] ELSE k

(***************************************************************************)
(* _get_rel_source_ref                                                     *)
(***************************************************************************)
\* the number of trailing path segments searched for the source folder
RefWindow == 5

\* the reference path of the document at path, or ValueError
_get_rel_source_ref(path) ==
    LET pathparts == Split(path, "/")
        ind       == Index(LastN(pathparts, RefWindow), _SOURCEDIR_NAME)
        url       == Join(SliceFrom(pathparts, -RefWindow + 1 + ind), "/")
    IN  IF ind = -1 THEN [ok |-> FALSE, exc |-> "ValueError"]
        ELSE [ok |-> TRUE, url |-> RSplit1(url, ".")[1]]

(***************************************************************************)
(* pathlib and os.path                                                     *)
(***************************************************************************)
\* path.name
Name(path) == SubSeq(path, RFind(path, "/") + 1, Len(path))

\* os.path.dirname(path)
Dirname(path) == SubSeq(path, 1, RFind(path, "/") - 1)

\* a faulty variant: the name including .md
StemWithExt(path) == Name(path)

\* path.name.rsplit(".", 1)[0], the reference name of a document
Stem(path) == RSplit1(Name(path), ".")[1]

\* the segments of an absolute path: [x for x in path.split(sep) if x]
Segments(path) == Tail(Split(path, "/"))

\* len(os.path.commonprefix([a, b])) on two lists of segments
CommonLen(a, b) ==
    Max({n \in 0..Min({Len(a), Len(b)}) : SubSeq(a, 1, n) = SubSeq(b, 1, n)})

\* os.path.relpath(path, start) for absolute, normalised paths
relpath(path, start) ==
    LET start_list == Segments(start)
        path_list  == Segments(path)
        i          == CommonLen(start_list, path_list)
        rel_list   == [k \in 1..(Len(start_list) - i) |-> ".."]
                      \o SubSeq(path_list, i + 1, Len(path_list))
    IN  IF rel_list = <<>> THEN "." ELSE Join(rel_list, "/")

(***************************************************************************)
(* The cross-reference index of one source document                        *)
(***************************************************************************)
\* a faulty variant: the links are computed from the document root, not from the
\* folder of the source document
DocrefEntryFromRoot(sourcepath, last) ==
    [n \in {Stem(t) : t \in last} |->
        RSplit1(relpath(CHOOSE t \in last : Stem(t) = n, _SOURCE_DIR), ".")[1]]

\* docref_map[sourcepath] after the inner loop over targets: one entry per
\* reference name.  Where two targets share a name the later one in rglob's
\* order overwrites the earlier; last holds, of each name, the one visited last.
DocrefEntry(sourcepath, last) ==
    [n \in {Stem(t) : t \in last} |->
        RSplit1(relpath(CHOOSE t \in last : Stem(t) = n, Dirname(sourcepath)), ".")[1]]

\* the choices of "visited last" that rglob's order leaves open: one target
\* of each reference name
LastVisited(targets) ==
    LET names == {Stem(t) : t \in targets}
    IN  IF Cardinality(names) = Cardinality(targets) THEN {targets}
        ELSE {l \in SUBSET targets :
                /\ Cardinality(l) = Cardinality(names)
                /\ {Stem(t) : t \in l} = names}

(***************************************************************************)
(* _sub and _sub_doc, the replacement functions of the two link forms      *)
(***************************************************************************)
\* a faulty variant: only the two web schemes are exempt from path resolution
NoRemapWebOnly(url) ==
    \E i \in 1..2 : StartsWith(url, _NO_REMAP_STARTSWITH[i])

\* any(url.startswith(noremap) for noremap in _NO_REMAP_STARTSWITH)
NoRemap(url) ==
    \E i \in 1..Len(_NO_REMAP_STARTSWITH) : StartsWith(url, _NO_REMAP_STARTSWITH[i])

\* inline reference links; cur is _CURRFILE and dmap is docref_map at the call
_sub(cur, dmap, mtxt, murl) ==
    LET txt    == GetOr(TXT_REMAPS, mtxt)
        url    == GetOr(URL_REMAPS, murl)
        parts  == RSplit1(url, "/")
        fname1 == IF Len(parts) = 2 THEN parts[2] ELSE parts[1]
        fname2 == RSplit1(fname1, ".")[1]
        split  == RSplit1(fname2, "#")
        fname  == split[1]
        urlout == IF Contains(url, "http") /\ Contains(url, "://") THEN url
                  ELSE IF cur \in DOMAIN dmap /\ fname \in DOMAIN dmap[cur]
                       THEN dmap[cur][fname]
                            \o (IF Len(split) = 2 THEN "#" \o split[2] ELSE "")
                       ELSE url
    IN  IF NoRemap(url) THEN "[" \o txt \o "](" \o url \o ")"
        ELSE "[" \o txt \o "](" \o urlout \o ")"

\* reference links set at the bottom of the page
_sub_doc(cur, dmap, mtxt, murl) ==
    LET txt    == GetOr(TXT_REMAPS, mtxt)
        url    == GetOr(URL_REMAPS, murl)
        parts  == RSplit1(url, "/")
        fname1 == IF Len(parts) = 2 THEN parts[2] ELSE parts[1]
        fname2 == RSplit1(fname1, ".")[1]
        split  == RSplit1(fname2, "#")
        fname  == split[1]
        urlout == IF Contains(url, "http") /\ Contains(url, "://") THEN url
                  ELSE IF cur \in DOMAIN dmap /\ fname \in DOMAIN dmap[cur]
                       THEN dmap[cur][fname]
                            \o (IF Len(split) = 2 THEN "#" \o split[2] ELSE "")
                       ELSE url
    IN  IF NoRemap(url) THEN "[" \o txt \o "](" \o url \o ")"
        ELSE "[" \o txt \o "]: " \o urlout

(***************************************************************************)
(* ref_regex and ref_doc_regex                                             *)
(***************************************************************************)
\* the apostrophe stands for the backquote (which a string of this module
\* cannot hold) in the directive block of toc.md; like the backquote it is in
\* the label class of both patterns, and no other modelled text uses it
Backquote == "'"

\* \w on the modelled characters
WordChars == {c \in DOMAIN Ord : \/ Ord[c] \in 48..57 \/ Ord[c] \in 65..90
                                 \/ Ord[c] = 95    \/ Ord[c] \in 97..122}

\* [\w -\[\]\`]: word characters, the range from space to '[', and ']'
InlineTxtClass == WordChars \cup {c \in DOMAIN Ord : Ord[c] \in 32..91} \cup {"]"}

\* [\w -\`]: word characters and the range from space to the backquote
DocTxtClass == WordChars \cup {c \in DOMAIN Ord : Ord[c] \in 32..96}

\* \s on the modelled characters
Whitespace == {" ", "\t", "\n"}

NoMatch == [ok |-> FALSE]

\* ref_regex matched at position i:  \[(?P<txt>[\w -\[\]\`]+?)\]\((?P<url>.+?)\)
\* txt ends at the first j, and url before the first ')' that let the rest match
RefMatchAt(s, i) ==
    IF Char(s, i) # "[" THEN NoMatch
    ELSE LET J == {j \in (i + 1)..(Len(s) - 4) :
                     /\ Char(s, j + 1) = "]"
                     /\ Char(s, j + 2) = "("
                     /\ \A t \in (i + 1)..j : Char(s, t) \in InlineTxtClass
                     /\ \E k \in (j + 4)..Len(s) : Char(s, k) = ")"}
         IN  IF J = {} THEN NoMatch
             ELSE LET j == Min(J)
                      k == Min({k \in (j + 4)..Len(s) : Char(s, k) = ")"})
                  IN  [ok |-> TRUE, txt |-> SubSeq(s, i + 1, j),
                       url |-> SubSeq(s, j + 3, k - 1), end |-> k]

\* ref_doc_regex matched at position i:  \[(?P<txt>[\w -\`]+?)\]:\s+?(?P<url>.+?)(?=$|\n)
\* \s+? takes one character; url runs to the first place that ends the text
\* or stands before a newline
RefDocMatchAt(s, i) ==
    IF Char(s, i) # "[" THEN NoMatch
    ELSE LET J == {j \in (i + 1)..(Len(s) - 4) :
                     /\ Char(s, j + 1) = "]"
                     /\ Char(s, j + 2) = ":"
                     /\ Char(s, j + 3) \in Whitespace
                     /\ \A t \in (i + 1)..j : Char(s, t) \in DocTxtClass}
         IN  IF J = {} THEN NoMatch
             ELSE LET j == Min(J)
                      b == Min({b \in (j + 4)..Len(s) :
                                  b = Len(s) \/ Char(s, b + 1) = "\n"})
                  IN  [ok |-> TRUE, txt |-> SubSeq(s, i + 1, j),
                       url |-> SubSeq(s, j + 4, b), end |-> b]

\* the first position from i on that holds '[', or Len(s) + 1
NextBracket(s, i) ==
    LET n == FindFrom(s, "[", i) IN IF n = 0 THEN Len(s) + 1 ELSE n

\* ref_regex.sub(_sub, s), from position i on
RECURSIVE RefSub(_, _, _, _)
RefSub(s, i, cur, dmap) ==
    IF i > Len(s) THEN ""
    ELSE LET n == NextBracket(s, i)
             m == RefMatchAt(s, n)
         IN  IF n > Len(s) THEN SubSeq(s, i, Len(s))
             ELSE IF m.ok
                  THEN SubSeq(s, i, n - 1) \o _sub(cur, dmap, m.txt, m.url)
                       \o RefSub(s, m.end + 1, cur, dmap)
                  ELSE SubSeq(s, i, n) \o RefSub(s, n + 1, cur, dmap)

\* ref_doc_regex.sub(_sub_doc, s), from position i on
RECURSIVE RefDocSub(_, _, _, _)
RefDocSub(s, i, cur, dmap) ==
    IF i > Len(s) THEN ""
    ELSE LET n == NextBracket(s, i)
             m == RefDocMatchAt(s, n)
         IN  IF n > Len(s) THEN SubSeq(s, i, Len(s))
             ELSE IF m.ok
                  THEN SubSeq(s, i, n - 1) \o _sub_doc(cur, dmap, m.txt, m.url)
                       \o RefDocSub(s, m.end + 1, cur, dmap)
                  ELSE SubSeq(s, i, n) \o RefDocSub(s, n + 1, cur, dmap)

\* outtxt of one document: both substitutions, the inline form first
Relinked(cur, dmap, intxt) ==
    RefDocSub(RefSub(intxt, 1, cur, dmap), 1, cur, dmap)

(***************************************************************************)
(* Calls of one function under test (SpecRef, SpecLink)                    *)
(***************************************************************************)
NoCall == [done |-> FALSE]

\* the state of a run that has not started: SpecRef and SpecLink leave it alone
IdleRun ==
    /\ files = <<>> /\ files0 = <<>> /\ run = 0 /\ pc = "idle" /\ exc = ""
    /\ pending = {} /\ toc_map = <<>> /\ queue = <<>> /\ count = 0 /\ written = {}

(***************************************************************************)
(* Document trees                                                          *)
(***************************************************************************)
MaxDocs == 3

\* the documents a tree is drawn from, relative to _SOURCE_DIR
DocPaths == {"A.md", "sub/A.md", "sub/B-c.md", "Tutorials.md",
             "Howto/Howto-Overview.md", "d1/d2/d3/d4/E.md"}

\* the trees of the calls of _sub and _sub_doc have two more documents
LinkDocPaths == DocPaths \cup {"github:issue.md", "Setup/Setup-Quickstart.md"}

Abs(rel) == _SOURCE_DIR \o "/" \o rel

\* the trees of one to n documents out of paths
Trees(paths, n) ==
    {{Abs(r) : r \in T} : T \in {U \in SUBSET paths : Cardinality(U) \in 1..n}}

UniqueStems(T) == \A p, q \in T : Stem(p) = Stem(q) => p = q

\* the trees the cataloging loop completes on
Catalogable(T) == UniqueStems(T) /\ \A p \in T : _get_rel_source_ref(p).ok

\* docref_map once the cataloging loop has completed on T
CatalogIndex(T) ==
    [p \in T |-> DocrefEntry(p, T)]

(***************************************************************************)
(* sorted() and the text of toc.md                                         *)
(***************************************************************************)
\* the elements of a set, listed in some order
RECURSIVE SeqOf(_)
SeqOf(S) ==
    IF S = {} THEN <<>>
    ELSE LET x == CHOOSE y \in S : TRUE IN <<x>> \o SeqOf(S \ {x})

\* pair = <<key, value>> put into a list of pairs sorted by key, after the
\* pairs whose key is not greater (sorted() is stable)
RECURSIVE Insert(_, _)
Insert(pair, seq) ==
    IF seq = <<>> THEN <<pair>>
    ELSE IF StrLess(pair[1], seq[1][1]) THEN <<pair>> \o seq
    ELSE <<seq[1]>> \o Insert(pair, Tail(seq))

\* sorted(pairs, key=first): the values, in the order of their keys
RECURSIVE SortPairs(_)
SortPairs(pairs) ==
    IF pairs = <<>> THEN <<>>
    ELSE Insert(pairs[Len(pairs)], SortPairs(SubSeq(pairs, 1, Len(pairs) - 1)))

sorted(pairs) == [i \in 1..Len(pairs) |-> SortPairs(pairs)[i][2]]

\* sorted(Path(_SOURCE_DIR).rglob("*.md"), key=lambda p: p.name)
SortedByName(paths) ==
    sorted([i \in 1..Cardinality(paths) |-> <<Name(SeqOf(paths)[i]), SeqOf(paths)[i]>>])

\* sorted(toc_map.values())
SortedValues(toc) ==
    sorted([i \in 1..Cardinality(DOMAIN toc) |->
              <<toc[SeqOf(DOMAIN toc)[i]], toc[SeqOf(DOMAIN toc)[i]]>>])

TocHeader == "# Toc\n"

TocDirective ==
    "\n\n" \o Backquote \o Backquote \o Backquote \o "toctree::\n  :hidden:\n\n  toc\n"
    \o Backquote \o Backquote \o Backquote

\* a faulty variant: the toc's own reference is listed like any other
RECURSIVE TocEntriesWithSelf(_)
TocEntriesWithSelf(refs) ==
    IF refs = <<>> THEN ""
    ELSE "\n- [" \o Replace(refs[1], "-", " ") \o "](" \o refs[1] \o ")"
         \o TocEntriesWithSelf(Tail(refs))

\* the list entries written for the references refs, in their order
RECURSIVE TocEntries(_)
TocEntries(refs) ==
    IF refs = <<>> THEN ""
    ELSE (IF refs[1] = "toc" THEN ""
          ELSE "\n- [" \o Replace(refs[1], "-", " ") \o "](" \o refs[1] \o ")")
         \o TocEntries(Tail(refs))

\* everything written to _TOC_FILE
TocText(toc) == TocHeader \o TocEntries(SortedValues(toc)) \o TocDirective

(***************************************************************************)
(* Spec: create_toctree run on a tree of documents, and run again          *)
(***************************************************************************)
MaxRuns == 2

\* what the documents of a tree may hold
DocTexts == {"hi",
             "[x](A) [k]: https://e.io\n",
             "see [b c](old/B-c.md#s1)\n[r]: Tutorials\n"}

Init ==
    /\ \E T \in Trees(DocPaths, MaxDocs) : files \in [T -> DocTexts]
    /\ files0 = files
    /\ run = 1
    /\ pc = "catalog"
    /\ exc = ""
    /\ pending = DOMAIN files
    /\ toc_map = <<>>
    /\ docref_map = <<>>
    /\ _CURRFILE = "None"
    /\ queue = <<>>
    /\ count = 0
    /\ written = {}
    /\ arg = <<>>
    /\ ret = NoCall

\* one iteration of the cataloging loop, on the document rglob yields next
Catalog ==
    /\ pc = "catalog"
    /\ \E last \in LastVisited(DOMAIN files), path \in pending :
         LET fname == Stem(path)
             ref   == _get_rel_source_ref(path)
         IN  IF Name(path) \in _IGNORE_FILES
             THEN /\ pending' = pending \ {path}
                  /\ UNCHANGED <<pc, exc, toc_map, docref_map>>
             ELSE IF ~ref.ok
             THEN /\ pc' = "error"
                  /\ exc' = ref.exc
                  /\ UNCHANGED <<pending, toc_map, docref_map>>
             ELSE IF fname \in DOMAIN toc_map
             THEN /\ pc' = "error"
                  /\ exc' = "DocumentError"
                  /\ UNCHANGED <<pending, toc_map, docref_map>>
             ELSE /\ toc_map' = toc_map @@ (fname :> ref.url)
                  /\ docref_map' = docref_map @@
                        (path :> DocrefEntry(path, last))
                  /\ pending' = pending \ {path}
                  /\ UNCHANGED <<pc, exc>>
    /\ UNCHANGED <<files, files0, run, _CURRFILE, queue, count, written, arg, ret>>

\* the cataloging loop is over: count = 0, and the documents sorted by name
StartRewrite ==
    /\ pc = "catalog"
    /\ pending = {}
    /\ pc' = "rewrite"
    /\ count' = 0
    /\ queue' = SortedByName(DOMAIN files)
    /\ UNCHANGED <<files, files0, run, exc, pending, toc_map, docref_map,
                   _CURRFILE, written, arg, ret>>

\* the files after the rewrite loop's iteration on path, with _CURRFILE = cur
\* while the two substitutions run
Rewritten(path, cur, fs, dmap) ==
    LET intxt  == fs[path]
        outtxt == Relinked(cur, dmap, intxt)
    IN  IF intxt # outtxt THEN [fs EXCEPT ![path] = outtxt] ELSE fs

\* a faulty variant: _CURRFILE is assigned after the substitutions, which still see the
\* document of the previous iteration
RewriteDocStale(path) ==
    /\ _CURRFILE' = path
    /\ files' = Rewritten(path, _CURRFILE, files, docref_map)
    /\ count' = IF files'[path] # files[path] THEN count + 1 ELSE count
    /\ written' = IF files'[path] # files[path] THEN written \cup {path} ELSE written
    /\ UNCHANGED <<files0, run, pc, exc, pending, toc_map, docref_map, arg, ret>>

\* one iteration of the rewrite loop
RewriteDoc(path) ==
    /\ _CURRFILE' = path
    /\ files' = Rewritten(path, _CURRFILE', files, docref_map)
    /\ count' = IF files'[path] # files[path] THEN count + 1 ELSE count
    /\ written' = IF files'[path] # files[path] THEN written \cup {path} ELSE written
    /\ UNCHANGED <<files0, run, pc, exc, pending, toc_map, docref_map, arg, ret>>

Rewrite ==
    /\ pc = "rewrite"
    /\ queue # <<>>
    /\ RewriteDoc(Head(queue))
    /\ queue' = Tail(queue)

\* the rewrite loop is over: write the toc file
WriteToc ==
    /\ pc = "rewrite"
    /\ queue = <<>>
    /\ files' = (_TOC_FILE :> TocText(toc_map)) @@ files
    /\ pc' = "done"
    /\ UNCHANGED <<files0, run, exc, pending, toc_map, docref_map, _CURRFILE,
                   queue, count, written, arg, ret>>

\* create_toctree is invoked again, on the tree the last run left
Rerun ==
    /\ pc = "done"
    /\ run < MaxRuns
    /\ run' = run + 1
    /\ files0' = files
    /\ pc' = "catalog"
    /\ pending' = DOMAIN files
    /\ toc_map' = <<>>
    /\ docref_map' = <<>>
    /\ _CURRFILE' = "None"
    /\ count' = 0
    /\ written' = {}
    /\ UNCHANGED <<files, exc, queue, arg, ret>>

Next == Catalog \/ StartRewrite \/ Rewrite \/ WriteToc \/ Rerun

Spec == Init /\ [][Next]_vars

(***************************************************************************)
(* Properties of a run                                                     *)
(***************************************************************************)
\* C1: with two documents of the same filename stem the run fails with a
\* DocumentError during cataloging, every file as it was before the run.
C1_DuplicateAborts ==
    (~UniqueStems(DOMAIN files0) /\ pc # "catalog")
        => (pc = "error" /\ exc = "DocumentError" /\ files = files0)

\* C2: a second run on the tree a complete run left rewrites no document:
\* its count is zero and every file is as it was before it.
C2_SecondRunIdle ==
    (run >= 2 /\ pc = "done") => (count = 0 /\ written = {} /\ files = files0)

\* the filename of a document without its .md
FileStem(path) == SubSeq(Name(path), 1, Len(Name(path)) - 3)

\* the Markdown documents of the run that are not ignored
Cataloged == {p \in DOMAIN files0 : Name(p) \notin _IGNORE_FILES}

\* C7: on a tree of unique stems the completed catalog has exactly one entry
\* per Markdown document not ignored, keyed by the document's filename stem.
C7_CatalogComplete ==
    (pc \in {"rewrite", "done"} /\ UniqueStems(DOMAIN files0))
        => /\ DOMAIN toc_map = {FileStem(p) : p \in Cataloged}
           /\ Cardinality(DOMAIN toc_map) = Cardinality(Cataloged)

C7_Witness ==
    /\ pc = "rewrite" /\ run = 2
    /\ DOMAIN toc_map = {"A", "B-c", "Tutorials", "toc"}

\* s sorts before t: equal up to a place where s ends or has the smaller character
Lex(s, t) ==
    \E i \in 1..Len(t) :
        /\ i <= Len(s) + 1
        /\ SubSeq(s, 1, i - 1) = SubSeq(t, 1, i - 1)
        /\ (i = Len(s) + 1 \/ Ord[Char(s, i)] < Ord[Char(t, i)])

\* line is the list entry of the reference r: "- [label](r)", the label being
\* r with every '-' replaced by a space
EntryOf(line, r) ==
    /\ Len(line) = 2 * Len(r) + 6
    /\ SubSeq(line, 1, 3) = "- ["
    /\ SubSeq(line, Len(r) + 4, Len(line)) = "](" \o r \o ")"
    /\ \A i \in 1..Len(r) :
         Char(line, 3 + i) = IF Char(r, i) = "-" THEN " " ELSE Char(r, i)

\* the reference paths toc.md has to list
Listed == Range(toc_map) \ {"toc"}

\* C6: after a successful run toc.md is the header, one entry per cataloged
\* reference path other than "toc" in lexicographic order without duplicates,
\* and the hidden toctree block naming toc.
C6_TocContents ==
    pc = "done" =>
        LET lines == Split(files[_TOC_FILE], "\n")
            k     == Cardinality(Listed)
            ref(i) == CHOOSE r \in Listed : EntryOf(lines[2 + i], r)
        IN  /\ Len(lines) = k + 8
            /\ lines[1] = "# Toc" /\ lines[2] = ""
            /\ \A i \in 1..k : \E r \in Listed : EntryOf(lines[2 + i], r)
            /\ \A i \in 1..(k - 1) : Lex(ref(i), ref(i + 1))
            /\ SubSeq(lines, k + 3, k + 8) =
                 <<"", Backquote \o Backquote \o Backquote \o "toctree::", "  :hidden:",
                   "", "  toc", Backquote \o Backquote \o Backquote>>

C6_Witness ==
    /\ pc = "done" /\ run = 2
    /\ Range(toc_map) = {"toc", "sub/B-c", "Tutorials", "A"}

(***************************************************************************)
(* SpecAnyOrder: one run with the rewrite loop taking the documents in any *)
(* order instead of the sorted one                                         *)
(***************************************************************************)
RewriteAny ==
    /\ pc = "rewrite"
    /\ \E i \in 1..Len(queue) :
         /\ RewriteDoc(queue[i])
         /\ queue' = SubSeq(queue, 1, i - 1) \o SubSeq(queue, i + 1, Len(queue))

NextAnyOrder == Catalog \/ StartRewrite \/ RewriteAny \/ WriteToc

SpecAnyOrder == Init /\ [][NextAnyOrder]_vars

\* the files and the count after the rewrite loop has taken the documents of
\* q in their order, starting from the files fs and the count c
RECURSIVE LoopOver(_, _, _, _)
LoopOver(q, fs, c, dmap) ==
    IF q = <<>> THEN [files |-> fs, count |-> c]
    ELSE LET out == Rewritten(Head(q), Head(q), fs, dmap)
         IN  LoopOver(Tail(q), out, IF out # fs THEN c + 1 ELSE c, dmap)

\* what the loop of the code, in sorted order, makes of the files of the run
InSortedOrder == LoopOver(SortedByName(DOMAIN files0), files0, 0, docref_map)

\* C9: whatever the order of the rewrite loop, a document it has processed
\* has the content the sorted order gives it, a document it has not is as
\* before the run, and at its end the count is the sorted order's count.
C9_OrderIndependent ==
    pc = "rewrite" =>
        LET sorted_run == InSortedOrder
        IN  /\ \A p \in DOMAIN files0 :
                 files[p] = IF \E i \in 1..Len(queue) : queue[i] = p
                            THEN files0[p] ELSE sorted_run.files[p]
            /\ queue = <<>> => count = sorted_run.count

\* a document other than the first of the sorted order has been rewritten
\* while the first, which the sorted order rewrites too, still waits
C9_Witness ==
    /\ pc = "rewrite" /\ queue # <<>> /\ written # {}
    /\ Head(queue) = Head(SortedByName(DOMAIN files0))
    /\ InSortedOrder.files[Head(queue)] # files0[Head(queue)]

(***************************************************************************)
(* SpecLink: _sub and _sub_doc applied to one match, in the state the      *)
(* rewrite loop calls them in                                              *)
(***************************************************************************)
LinkTexts == {"x", "Getting Started"}

LinkUrls == {"https://e.io/x", "http://e.io/a.b#c", "shttp://h/A",
             "github:docs/A.md", "api:evennia.utils", "issues/3",
             "issue", "issues", "bug", "bug-report", "feature-request",
             "Tutorials", "Getting-Started", "Setup/Getting-Started",
             "A", "A.md", "sub/A", "../A", "B-c", "old/B-c.md",
             "B-c#sec", "B-c#sec.1", "B-c.md#sec", "B-c#a/b", "../sub/B-c#s-1",
             "Nope", "Nope#x"}

InitLink ==
    /\ IdleRun
    /\ \E T \in Trees(LinkDocPaths, MaxDocs) :
         /\ Catalogable(T)
         /\ docref_map = CatalogIndex(T)
         /\ _CURRFILE \in T
    /\ arg \in [txt : LinkTexts, url : LinkUrls \cup DOMAIN URL_REMAPS]
    /\ ret = NoCall

CallSub ==
    /\ ret = NoCall
    /\ ret' = [done |-> TRUE, form |-> "inline",
               val |-> _sub(_CURRFILE, docref_map, arg.txt, arg.url)]
    /\ UNCHANGED <<files, files0, run, pc, exc, pending, toc_map, docref_map,
                   _CURRFILE, queue, count, written, arg>>

CallSubDoc ==
    /\ ret = NoCall
    /\ ret' = [done |-> TRUE, form |-> "ref",
               val |-> _sub_doc(_CURRFILE, docref_map, arg.txt, arg.url)]
    /\ UNCHANGED <<files, files0, run, pc, exc, pending, toc_map, docref_map,
                   _CURRFILE, queue, count, written, arg>>

NextLink == CallSub \/ CallSubDoc

SpecLink == InitLink /\ [][NextLink]_vars

\* the emitted link has the given target, in one of the two link forms
Emits(out, txt, target) ==
    \/ out = "[" \o txt \o "](" \o target \o ")"
    \/ out = "[" \o txt \o "]: " \o target

\* the label the link is emitted with
Label == GetOr(TXT_REMAPS, arg.txt)

\* the documents of the catalog the call runs against
Docs == DOMAIN docref_map

\* the relative path from the current document's folder to doc, extension stripped
RelNoExt(doc) ==
    LET rel == relpath(doc, Dirname(_CURRFILE)) IN SubSeq(rel, 1, Len(rel) - 3)

\* the no-remap prefixes
NoRemapPrefixes == {"http://", "https://", "github:", "api:",
                    "feature-request", "report-bug", "issue", "bug-report"}

\* the target begins with a no-remap prefix
BeginsNoRemap(url) ==
    \E p \in NoRemapPrefixes : Len(p) <= Len(url) /\ SubSeq(url, 1, Len(p)) = p

\* C3: a written target that begins with a no-remap prefix is emitted as written.
C3_NoRemapVerbatim ==
    (ret.done /\ BeginsNoRemap(arg.url)) => Emits(ret.val, Label, arg.url)

\* C3 as amended: ... unless the written target is itself a key of URL_REMAPS.
C3_NoRemapVerbatimUnlessKey ==
    (ret.done /\ BeginsNoRemap(arg.url) /\ arg.url \notin DOMAIN URL_REMAPS)
        => Emits(ret.val, Label, arg.url)

C3_Witness ==
    /\ ret.done /\ arg.url = "github:docs/A.md"
    /\ \E d \in Docs : Stem(d) = "A" /\ Dirname(d) # Dirname(_CURRFILE)

\* a written target that no remap, no-remap prefix or scheme test applies to
Local(url) ==
    /\ url \notin DOMAIN URL_REMAPS
    /\ ~BeginsNoRemap(url)
    /\ ~(Contains(url, "http") /\ Contains(url, "://"))

\* <path>#<fragment>: the path, the fragment, and the document the path names
\* (its last segment, extension stripped)
PathOf(url) == SubSeq(url, 1, Find(url, "#") - 1)

FragmentOf(url) == SubSeq(url, Find(url, "#") + 1, Len(url))

DocNameOf(url) == RSplit1(Name(PathOf(url)), ".")[1]

\* C4: a local target <path>#<fragment> whose document is in the current
\* document's index entry is rewritten to the indexed path, '#', and the
\* fragment exactly as written.
C4_FragmentPreserved ==
    (/\ ret.done /\ Local(arg.url) /\ Find(arg.url, "#") > 0
     /\ DocNameOf(arg.url) \in DOMAIN docref_map[_CURRFILE])
        => Emits(ret.val, Label,
                 docref_map[_CURRFILE][DocNameOf(arg.url)] \o "#" \o FragmentOf(arg.url))

\* the documents whose reference name is the last path segment of a remap value
NamedBy(value) == {d \in Docs : Stem(d) = Name(value)}

\* C5: a written target that is a key of URL_REMAPS whose value names an
\* existing document is emitted as the relative path from the current
\* document's folder to that document, extension stripped.
C5_RemapRoundTrip ==
    (ret.done /\ arg.url \in DOMAIN URL_REMAPS)
        => \A d \in NamedBy(URL_REMAPS[arg.url]) : Emits(ret.val, Label, RelNoExt(d))

\* C5 as amended: ... provided the remap value does not begin with a no-remap
\* prefix (the four keys remapped to "github:issue" are emitted as that).
C5_RemapRoundTripLocalValue ==
    (ret.done /\ arg.url \in DOMAIN URL_REMAPS /\ ~BeginsNoRemap(URL_REMAPS[arg.url]))
        => \A d \in NamedBy(URL_REMAPS[arg.url]) : Emits(ret.val, Label, RelNoExt(d))

C5_Witness ==
    /\ ret.done /\ ret.form = "ref" /\ arg.url = "Tutorials"
    /\ NamedBy(URL_REMAPS[arg.url]) # {}
    /\ Dirname(_CURRFILE) = _SOURCE_DIR \o "/sub"
    /\ ret.val = "[" \o Label \o "]: ../Howto/Howto-Overview"

\* C8: a reference-definition link with no remapped label or target, whose
\* target starts with a no-remap prefix, is emitted unchanged and still in
\* reference-definition form.
C8_RefFormKept ==
    (/\ ret.done /\ ret.form = "ref"
     /\ arg.txt \notin DOMAIN TXT_REMAPS /\ arg.url \notin DOMAIN URL_REMAPS
     /\ BeginsNoRemap(arg.url))
        => ret.val = "[" \o arg.txt \o "]: " \o arg.url

(***************************************************************************)
(* SpecRef: _get_rel_source_ref applied to the documents of bounded trees  *)
(***************************************************************************)
MaxDepth == 5

FolderNames == {"d1", "source", "v1.0"}

DocNames == {"name.md", "a.b.md"}

\* the folder paths of at most n levels, each ending in "/" ("" is the root)
RECURSIVE Folders(_)
Folders(n) ==
    IF n = 0 THEN {""}
    ELSE Folders(n - 1) \cup {d \o f \o "/" : d \in Folders(n - 1), f \in FolderNames}

InitRef ==
    /\ IdleRun
    /\ docref_map = <<>>
    /\ _CURRFILE = "None"
    /\ arg \in {_SOURCE_DIR \o "/" \o d \o n : d \in Folders(MaxDepth), n \in DocNames}
    /\ ret = NoCall

CallRef ==
    /\ ret = NoCall
    /\ ret' = [done |-> TRUE, val |-> _get_rel_source_ref(arg)]
    /\ UNCHANGED <<files, files0, run, pc, exc, pending, toc_map, docref_map,
                   _CURRFILE, queue, count, written, arg>>

NextRef == CallRef

SpecRef == InitRef /\ [][NextRef]_vars

\* the path of a document relative to the document root
RelToRoot(path) == SubSeq(path, Len(_SOURCE_DIR) + 2, Len(path))

\* the number of folders between the document root and a document
Nesting(path) == Len(Split(RelToRoot(path), "/")) - 1

\* C10: a document nested at most 4 folder levels below the root gets its
\* root-relative path, extension stripped, whatever the folders are called.
C10_RelRefUpTo4Levels ==
    (ret.done /\ Nesting(arg) <= 4) =>
        /\ ret.val.ok
        /\ ret.val.url = SubSeq(RelToRoot(arg), 1, Len(RelToRoot(arg)) - 3)

====
